---- MODULE Spec2Model ----
(***************************************************************************)
(* A model of news_aggregator.py: the NewsAggregator class (the SQLite     *)
(* article store, the two source adapters, the deduplicator, the query and *)
(* the three export encoders) and the fetch / query / export commands of   *)
(* main().                                                                 *)
(*                                                                         *)
(* Text values (Python str, SQLite TEXT) are sequences of one-character    *)
(* strings.  Python's None and SQL NULL are the value None.  A Python dict *)
(* is a record; a dict that lacks a key is a record without that field.    *)
(***************************************************************************)
EXTENDS Integers, Sequences, FiniteSets, TLC

VARIABLES
    committed,     \* rows of table articles as committed, in insertion order
    pending,       \* per connection: rows inserted but not yet committed
    seq,           \* the AUTOINCREMENT counter of table articles
    lock,          \* the connection that holds the database write lock
    pc,            \* per connection: where its store_articles call stands
    batch,         \* per connection: the argument of its store_articles call
    idx,           \* per connection: index of the next article of the loop
    stored_count,  \* per connection: the local stored_count
    errs,          \* per connection: the exceptions printed by the call
    reported,      \* per connection: the count printed by "Stored n new"
    startSeq,      \* per connection: seq when the call started
    calls,         \* store_articles calls made so far
    used,          \* articles handed to store_articles so far
    qargs,         \* the arguments of the last query_articles call
    result,        \* what the last query_articles call returned
    resultIds,     \* the ids of the rows behind result, in result order
    qpc,           \* where the query command of main() stands
    files,         \* the file system: file name -> content
    lastExport,    \* what the last export_to_* call did
    remote,        \* what the two remote sources currently serve
    mainpc,        \* where the fetch command of main() stands
    articles,      \* the local list articles of main()
    fetched,       \* what each adapter returned in this run
    adapterLog,    \* what each adapter printed / raised in this run
    found,         \* the count printed by "Found n unique articles"
    dedupIn,       \* the argument of the deduplicate call of this run
    history,       \* what each completed fetch command printed and left stored
    exports        \* export commands run so far

storeVars == <<committed, pending, seq, lock, pc, batch, idx, stored_count,
               errs, reported, startSeq, calls, used>>
queryVars == <<qargs, result, resultIds, qpc>>
exportVars == <<files, lastExport, exports>>
mainVars == <<remote, mainpc, articles, fetched, adapterLog, found, dedupIn, history>>
vars == <<storeVars, queryVars, exportVars, mainVars>>

----------------------------------------------------------------------------
(* Bounds of the model.                                                    *)

\* store_articles calls made directly (not through main) in one behaviour
MaxCalls == 2
\* articles handed to direct store_articles calls in one behaviour
MaxRows == 4
\* articles handed to store_articles before the queries of SpecQuery
MaxStored == 3
\* records one remote source serves
MaxFetch == 2
\* fetch commands run one after the other
MaxRuns == 2
\* export commands run one after the other
MaxExports == 2
\* articles in the argument of deduplicate
MaxLen == 3

----------------------------------------------------------------------------
(* Text.                                                                   *)

None == <<"None">>

\* str.lower() on one character; SQLite's LOWER() agrees on ASCII
LowerChar(c) ==
    CASE c = "A" -> "a"
      [] c = "B" -> "b"
      [] c = "C" -> "c"
      [] c = "F" -> "f"
      [] c = "R" -> "r"
      [] OTHER -> c

Lower(s) == [i \in 1..Len(s) |-> LowerChar(s[i])]

IsSpace(c) == c = " "

RECURSIVE LStrip(_)
LStrip(s) == IF s # <<>> /\ IsSpace(Head(s)) THEN LStrip(Tail(s)) ELSE s

RECURSIVE RStrip(_)
RStrip(s) ==
    IF s # <<>> /\ IsSpace(s[Len(s)]) THEN RStrip(SubSeq(s, 1, Len(s) - 1)) ELSE s

\* str.strip()
Strip(s) == RStrip(LStrip(s))

\* the code point of a character, for SQLite's BINARY collation
Code(c) ==
    CASE c = "-" -> 45
      [] c = "0" -> 48
      [] c = "1" -> 49
      [] c = "2" -> 50
      [] c = "3" -> 51
      [] c = "4" -> 52
      [] OTHER -> 128

\* s < t in SQLite's BINARY collation of TEXT (memcmp, then length)
RECURSIVE TextLess(_, _)
TextLess(s, t) ==
    IF t = <<>> THEN FALSE
    ELSE IF s = <<>> THEN TRUE
    ELSE IF Code(Head(s)) # Code(Head(t)) THEN Code(Head(s)) < Code(Head(t))
    ELSE TextLess(Tail(s), Tail(t))

\* s < t in SQLite's ordering of values: NULL sorts before every TEXT
ValueLess(s, t) ==
    IF t = None THEN FALSE
    ELSE IF s = None THEN TRUE
    ELSE TextLess(s, t)

\* SQLite's  str LIKE pat : % matches any run of characters, _ matches any
\* one character, every other character matches itself, ASCII letters
\* without regard to case
RECURSIVE Like(_, _)
Like(pat, str) ==
    IF pat = <<>> THEN str = <<>>
    ELSE IF Head(pat) = "%"
         THEN Like(Tail(pat), str) \/ (str # <<>> /\ Like(pat, Tail(str)))
    ELSE IF str = <<>> THEN FALSE
    ELSE IF Head(pat) = "_" THEN Like(Tail(pat), Tail(str))
    ELSE LowerChar(Head(pat)) = LowerChar(Head(str)) /\ Like(Tail(pat), Tail(str))

\* SQL three-valued  LOWER(col) LIKE pat  taken as a WHERE condition: a NULL
\* column makes the condition NULL, which selects nothing
LowerLike(col, pat) == col # None /\ Like(pat, Lower(col))

\* f"%{x.lower()}%"
Pattern(x) == <<"%">> \o Lower(x) \o <<"%">>

BoundedSeq(S, n) == UNION {[1..k -> S] : k \in 0..n}

----------------------------------------------------------------------------
(* The article store.                                                      *)

Procs == {1, 2}
NoLock == 0
NotReported == -1

Keys == {"title", "source", "url", "date", "description"}

\* article['title'], ..., article['description'] all evaluate (no KeyError)
HasKeys(article) == Keys \subseteq DOMAIN article

\* datetime.now().strftime(...): one instant, the clock is not modelled
Now == <<"n", "o", "w">>

\* the rows connection p reads: what is committed, and its own transaction
Visible(p) == committed \o pending[p]

\* mutant: the url column without its UNIQUE constraint
UniqueViolatedNever(article, rows) == FALSE

\* url TEXT UNIQUE: a non-NULL url equal to a stored one
UniqueViolated(article, rows) ==
    /\ article.url # None
    /\ \E i \in 1..Len(rows) : rows[i].url = article.url

\* title TEXT NOT NULL, source TEXT NOT NULL
NotNullViolated(article) == article.title = None \/ article.source = None

\* mutant: the duplicate-url check of the insert left out
IgnoredNotNullOnly(article, rows) == NotNullViolated(article)

\* INSERT OR IGNORE skips the row on a NOT NULL or UNIQUE violation
Ignored(article, rows) == NotNullViolated(article) \/ UniqueViolated(article, rows)

NewRow(article, id) ==
    [id |-> id, title |-> article.title, source |-> article.source,
     url |-> article.url, date |-> article.date,
     description |-> article.description, fetched_at |-> Now]

\* mutant: a database without a write lock, connections write side by side
RaisesNoLock(p, article) == IF ~HasKeys(article) THEN "KeyError" ELSE ""

\* the exception cursor.execute(...) and its parameter tuple raise for the
\* article, "" when none: a missing key, or the write lock held by another
\* connection for longer than the connection's timeout
Raises(p, article) ==
    IF ~HasKeys(article) THEN "KeyError"
    ELSE IF lock \notin {NoLock, p} THEN "OperationalError"
    ELSE ""

\* store_articles is called: connect, cursor, stored_count = 0
Call(p, b) ==
    /\ pc[p] = "idle"
    /\ pc' = [pc EXCEPT ![p] = "loop"]
    /\ batch' = [batch EXCEPT ![p] = b]
    /\ idx' = [idx EXCEPT ![p] = 1]
    /\ stored_count' = [stored_count EXCEPT ![p] = 0]
    /\ errs' = [errs EXCEPT ![p] = <<>>]
    /\ reported' = [reported EXCEPT ![p] = NotReported]
    /\ startSeq' = [startSeq EXCEPT ![p] = seq]
    /\ UNCHANGED <<committed, pending, seq, lock>>

\* mutant: try/except around the whole loop, an exception ends the batch
AfterRowAbort(i, n, exc) == IF exc # "" THEN n + 1 ELSE i + 1

\* the index the loop goes on with after an iteration that raised exc ("" when
\* it raised nothing): try/except is inside the loop, the loop always goes on
AfterRow(i, n, exc) == i + 1

\* one iteration of  for article in articles
InsertRow(p) ==
    /\ pc[p] = "loop"
    /\ idx[p] <= Len(batch[p])
    /\ LET article == batch[p][idx[p]]
           exc == Raises(p, article)
       IN
       /\ IF exc # ""
          THEN /\ errs' = [errs EXCEPT ![p] = Append(@, exc)]
               /\ UNCHANGED <<pending, seq, lock, stored_count>>
          ELSE /\ lock' = p
               /\ seq' = seq + 1
               /\ IF Ignored(article, Visible(p))
                  THEN UNCHANGED <<pending, stored_count>>
                  ELSE /\ pending' = [pending EXCEPT
                                        ![p] = Append(@, NewRow(article, seq + 1))]
                       /\ stored_count' = [stored_count EXCEPT ![p] = @ + 1]
               /\ UNCHANGED errs
       /\ idx' = [idx EXCEPT ![p] = AfterRow(@, Len(batch[p]), exc)]
    /\ UNCHANGED <<committed, pc, batch, reported, startSeq, calls, used>>

\* the loop is over: conn.commit(), conn.close(), print(stored_count)
Commit(p) ==
    /\ pc[p] = "loop"
    /\ idx[p] > Len(batch[p])
    /\ committed' = committed \o pending[p]
    /\ pending' = [pending EXCEPT ![p] = <<>>]
    /\ lock' = IF lock = p THEN NoLock ELSE lock
    /\ reported' = [reported EXCEPT ![p] = stored_count[p]]
    /\ pc' = [pc EXCEPT ![p] = "done"]
    /\ UNCHANGED <<seq, batch, idx, stored_count, errs, startSeq, calls, used>>

\* store_articles returns; its locals are gone
Return(p) ==
    /\ pc[p] = "done"
    /\ pc' = [pc EXCEPT ![p] = "idle"]
    /\ batch' = [batch EXCEPT ![p] = <<>>]
    /\ idx' = [idx EXCEPT ![p] = 1]
    /\ stored_count' = [stored_count EXCEPT ![p] = 0]
    /\ errs' = [errs EXCEPT ![p] = <<>>]
    /\ reported' = [reported EXCEPT ![p] = NotReported]
    /\ startSeq' = [startSeq EXCEPT ![p] = 0]
    /\ UNCHANGED <<committed, pending, seq, lock, calls, used>>

----------------------------------------------------------------------------
(* query_articles.                                                         *)

\* Python's truth value of an optional str argument:  if source:
Truthy(x) == x # None /\ x # <<>>

\* the WHERE clause the call builds, for one row
Selected(row, source, keyword, date) ==
    /\ Truthy(source) => LowerLike(row.source, Pattern(source))
    /\ Truthy(keyword) =>
          \/ LowerLike(row.title, Pattern(keyword))
          \/ LowerLike(row.description, Pattern(keyword))
    /\ Truthy(date) => (row.date # None /\ row.date = date)

\* mutant: ORDER BY date DESC, id ASC
OrderBeforeIdAsc(r1, r2) ==
    \/ ValueLess(r2.date, r1.date)
    \/ (r1.date = r2.date /\ r1.id < r2.id)

\* ORDER BY date DESC, id DESC: r1 comes before r2
OrderBefore(r1, r2) ==
    \/ ValueLess(r2.date, r1.date)
    \/ (r1.date = r2.date /\ r1.id > r2.id)

RECURSIVE OrderBy(_)
OrderBy(rows) ==
    IF rows = {} THEN <<>>
    ELSE LET first == CHOOSE r \in rows : \A o \in rows \ {r} : OrderBefore(r, o)
         IN  <<first>> \o OrderBy(rows \ {first})

\* cursor.fetchall() of the SELECT, with the id of each row kept beside it
Fetchall(source, keyword, date) ==
    OrderBy({committed[i] : i \in {k \in 1..Len(committed) :
                                     Selected(committed[k], source, keyword, date)}})

\* the dict built from one result row
RowDict(row) ==
    [title |-> row.title, source |-> row.source, url |-> row.url,
     date |-> row.date, description |-> row.description]

query_articles(source, keyword, date) ==
    LET results == Fetchall(source, keyword, date)
    IN  [i \in 1..Len(results) |-> RowDict(results[i])]

\* the query command of main(): query_articles on a connection of its own,
\* which reads what is committed
QueryCmd(source, keyword, date) ==
    /\ qpc = "idle"
    /\ qpc' = "queried"
    /\ qargs' = [source |-> source, keyword |-> keyword, date |-> date]
    /\ result' = query_articles(source, keyword, date)
    /\ resultIds' = LET results == Fetchall(source, keyword, date)
                    IN  [i \in 1..Len(results) |-> results[i].id]

\* the query command has printed its result and the process ends
QueryExit ==
    /\ qpc = "queried"
    /\ qpc' = "idle"
    /\ qargs' = [source |-> None, keyword |-> None, date |-> None]
    /\ result' = <<>>
    /\ resultIds' = <<>>

----------------------------------------------------------------------------
(* The export encoders and the export command.                             *)

NoExport == [format |-> "", n |-> 0, wrote |-> FALSE, message |-> "", count |-> NotReported]

Columns == <<"title", "source", "url", "date", "description">>

\* csv.DictWriter writes None as the empty field
CsvField(v) == IF v = None THEN <<>> ELSE v

CsvRow(a) == [i \in 1..Len(Columns) |-> CsvField(a[Columns[i]])]

\* open(filename, 'w') creates or truncates the file, json.dump fills it
export_to_json(arts, filename) ==
    /\ files' = [files EXCEPT ![filename] = <<"json", arts>>]
    /\ lastExport' = [format |-> "json", n |-> Len(arts), wrote |-> TRUE,
                      message |-> "Exported", count |-> Len(arts)]

export_to_csv(arts, filename) ==
    IF arts = <<>>
    THEN /\ files' = files
         /\ lastExport' = [format |-> "csv", n |-> 0, wrote |-> FALSE,
                           message |-> "No articles to export", count |-> NotReported]
    ELSE /\ files' = [files EXCEPT ![filename] =
                         <<"csv", Columns, [i \in 1..Len(arts) |-> CsvRow(arts[i])]>>]
         /\ lastExport' = [format |-> "csv", n |-> Len(arts), wrote |-> TRUE,
                           message |-> "Exported", count |-> Len(arts)]

export_to_excel(arts, filename) ==
    IF arts = <<>>
    THEN /\ files' = files
         /\ lastExport' = [format |-> "excel", n |-> 0, wrote |-> FALSE,
                           message |-> "No articles to export", count |-> NotReported]
    ELSE /\ files' = [files EXCEPT ![filename] = <<"excel", Columns, arts>>]
         /\ lastExport' = [format |-> "excel", n |-> Len(arts), wrote |-> TRUE,
                           message |-> "Exported", count |-> Len(arts)]

\* f"news_export_{timestamp}.{args.format}", the clock not modelled
AutoName(format) ==
    CASE format = "json" -> "news_export.json"
      [] format = "csv" -> "news_export.csv"
      [] format = "excel" -> "news_export.excel"

\* the export command of main(); output = "" stands for no --output
ExportCmd(source, keyword, date, format, output) ==
    LET arts == query_articles(source, keyword, date)
        filename == IF output = "" THEN AutoName(format) ELSE output
    IN  /\ exports < MaxExports
        /\ exports' = exports + 1
        /\ CASE format = "json" -> export_to_json(arts, filename)
             [] format = "csv" -> export_to_csv(arts, filename)
             [] format = "excel" -> export_to_excel(arts, filename)

----------------------------------------------------------------------------
(* deduplicate.                                                            *)

\* mutant: the title compared as it is, not lowercased
TitleKeyExact(article) == Strip(article.title)

\* title_lower = article['title'].lower().strip()
TitleKey(article) == Strip(Lower(article.title))

\* the loop of deduplicate from its i-th article on, with the set
\* seen_titles and the list unique_articles built so far
RECURSIVE DedupLoop(_, _, _, _)
DedupLoop(arts, i, seen_titles, unique_articles) ==
    IF i > Len(arts) THEN unique_articles
    ELSE LET title_lower == TitleKey(arts[i])
         IN  IF title_lower \notin seen_titles /\ title_lower # <<>>
             THEN DedupLoop(arts, i + 1, seen_titles \cup {title_lower},
                            Append(unique_articles, arts[i]))
             ELSE DedupLoop(arts, i + 1, seen_titles, unique_articles)

deduplicate(arts) == DedupLoop(arts, 1, {}, <<>>)

\* None.lower() raises AttributeError, which deduplicate does not catch
DedupRaises(arts) == \E i \in 1..Len(arts) : arts[i].title = None

----------------------------------------------------------------------------
(* The source adapters.  An adapter call is modelled by what it returns    *)
(* and the exception its except clause printed ("" when none).  A headline *)
(* of the BBC page is a record: text, and link (the attributes of the      *)
(* enclosing <a>) when there is one.  A NewsAPI record is a record with    *)
(* the members the JSON object has; a null object member is NullObject.    *)

HeadlineLimit == 20
DateLen == 10

\* s[:n]
Take(s, n) == SubSeq(s, 1, IF Len(s) < n THEN Len(s) ELSE n)

\* d.get(k, default)
Get(d, k, default) == IF k \in DOMAIN d THEN d[k] ELSE default

NullObject == [isNone |-> TRUE]
\* {}
EmptyObject == [isNone |-> FALSE]

\* datetime.now().strftime('%Y-%m-%d'), the clock not modelled
Today == <<"2", "0", "2", "4", "-", "0", "1", "-", "0", "1">>

BBCOrigin == <<"h", "t", "t", "p", "s", ":", "/", "/", "w", "w", "w", ".",
               "b", "b", "c", ".", "c", "o", "m">>

\* article_url.startswith('http')
StartsWithHttp(s) == Len(s) >= 4 /\ SubSeq(s, 1, 4) = <<"h", "t", "t", "p">>

\* link['href'] raises KeyError when the <a> has no href
HeadlineRaises(headline) ==
    IF "link" \in DOMAIN headline /\ "href" \notin DOMAIN headline.link
    THEN "KeyError" ELSE ""

\* the dict appended for one headline
HeadlineArticle(headline) ==
    LET href == IF "link" \in DOMAIN headline THEN headline.link.href ELSE <<>>
        article_url == IF href # <<>> /\ ~StartsWithHttp(href)
                       THEN BBCOrigin \o href ELSE href
    IN  [title |-> Strip(headline.text), source |-> <<"B", "B", "C", " ", "N", "e", "w", "s">>,
         url |-> article_url, date |-> Today, description |-> <<>>]

\* the loop over headlines[:20] from the i-th on; an exception ends it and
\* the function returns the list built so far
RECURSIVE BBCLoop(_, _, _)
BBCLoop(headlines, i, arts) ==
    IF i > Len(headlines) THEN [articles |-> arts, error |-> ""]
    ELSE IF HeadlineRaises(headlines[i]) # ""
         THEN [articles |-> arts, error |-> HeadlineRaises(headlines[i])]
         ELSE BBCLoop(headlines, i + 1, Append(arts, HeadlineArticle(headlines[i])))

fetch_bbc_news(response) ==
    IF response.net # "ok" THEN [articles |-> <<>>, error |-> "ConnectionError"]
    ELSE BBCLoop(Take(response.headlines, HeadlineLimit), 1, <<>>)

\* evaluating the dict for one record raises: None.get(...), None[:10]
RecordRaises(record) ==
    IF Get(record, "source", EmptyObject) = NullObject THEN "AttributeError"
    ELSE IF Get(record, "publishedAt", <<>>) = None THEN "TypeError"
    ELSE ""

\* the dict appended for one record
RecordArticle(record) ==
    [title |-> Get(record, "title", <<>>),
     source |-> Get(Get(record, "source", EmptyObject), "name",
                    <<"U", "n", "k", "n", "o", "w", "n">>),
     url |-> Get(record, "url", <<>>),
     date |-> Take(Get(record, "publishedAt", <<>>), DateLen),
     description |-> Get(record, "description", <<>>)]

RECURSIVE ApiLoop(_, _, _)
ApiLoop(records, i, arts) ==
    IF i > Len(records) THEN [articles |-> arts, error |-> ""]
    ELSE IF RecordRaises(records[i]) # ""
         THEN [articles |-> arts, error |-> RecordRaises(records[i])]
         ELSE ApiLoop(records, i + 1, Append(arts, RecordArticle(records[i])))

\* mutant: the except clause empties the list before it is returned
fetch_newsapi_cleared(response) ==
    IF response.net # "ok" \/ response.body # "ok" \/ response.status # "ok"
    THEN [articles |-> <<>>, error |-> IF response.net # "ok" THEN "ConnectionError"
                                       ELSE IF response.body # "ok" THEN "ValueError"
                                       ELSE ""]
    ELSE LET r == ApiLoop(response.records, 1, <<>>)
         IN  IF r.error # "" THEN [articles |-> <<>>, error |-> r.error] ELSE r

fetch_newsapi(response) ==
    IF response.net # "ok" THEN [articles |-> <<>>, error |-> "ConnectionError"]
    ELSE IF response.body # "ok" THEN [articles |-> <<>>, error |-> "ValueError"]
    ELSE IF response.status # "ok" THEN [articles |-> <<>>, error |-> ""]
    ELSE ApiLoop(response.records, 1, <<>>)

----------------------------------------------------------------------------
(* The fetch command of main().                                            *)

\* articles = []; articles.extend(aggregator.fetch_bbc_news())
FetchBBC ==
    /\ mainpc = "start"
    /\ Len(history) < MaxRuns
    /\ LET r == fetch_bbc_news(remote.bbc)
       IN  /\ articles' = r.articles
           /\ fetched' = [bbc |-> r.articles, api |-> <<>>]
           /\ adapterLog' = [bbc |-> r.error, api |-> ""]
    /\ mainpc' = "bbc"
    /\ found' = NotReported
    /\ dedupIn' = <<>>
    /\ UNCHANGED <<remote, history>>

\* if args.api_key: articles.extend(aggregator.fetch_newsapi(...))
FetchNewsapi ==
    /\ mainpc = "bbc"
    /\ remote.key
    /\ LET r == fetch_newsapi(remote.api)
       IN  /\ articles' = articles \o r.articles
           /\ fetched' = [fetched EXCEPT !.api = r.articles]
           /\ adapterLog' = [adapterLog EXCEPT !.api = r.error]
    /\ mainpc' = "fetched"
    /\ UNCHANGED <<remote, found, dedupIn, history>>

\* no --api-key: the NewsAPI adapter is not run
SkipNewsapi ==
    /\ mainpc = "bbc"
    /\ ~remote.key
    /\ mainpc' = "fetched"
    /\ UNCHANGED <<remote, articles, fetched, adapterLog, found, dedupIn, history>>

\* articles = aggregator.deduplicate(articles); print("Found n unique");
\* an exception in deduplicate ends the command
Deduplicate ==
    /\ mainpc = "fetched"
    /\ dedupIn' = articles
    /\ IF DedupRaises(articles)
       THEN /\ mainpc' = "crashed"
            /\ UNCHANGED <<articles, found>>
       ELSE /\ articles' = deduplicate(articles)
            /\ found' = Len(deduplicate(articles))
            /\ mainpc' = "deduped"
    /\ UNCHANGED <<remote, fetched, adapterLog, history>>

\* aggregator.store_articles(articles) is called
MainStore ==
    /\ mainpc = "deduped"
    /\ Call(1, articles)
    /\ mainpc' = "storing"
    /\ UNCHANGED <<calls, used, remote, articles, fetched, adapterLog, found, dedupIn, history>>

\* store_articles has returned and the command ends
MainEnd ==
    /\ mainpc = "storing"
    /\ Return(1)
    /\ history' = Append(history, [found |-> found, stored |-> reported[1],
                                    rows |-> committed])
    /\ mainpc' = "start"
    /\ articles' = <<>>
    /\ fetched' = [bbc |-> <<>>, api |-> <<>>]
    /\ adapterLog' = [bbc |-> "", api |-> ""]
    /\ found' = NotReported
    /\ dedupIn' = <<>>
    /\ UNCHANGED remote

\* store_articles called directly with a batch drawn from universe U
DirectCall(p, U, maxRows) ==
    /\ calls < MaxCalls
    /\ \E b \in BoundedSeq(U, maxRows - used) :
          /\ Call(p, b)
          /\ used' = used + Len(b)
    /\ calls' = calls + 1

----------------------------------------------------------------------------
(* Articles handed to store_articles.                                      *)

U1 == <<"u", "1">>
U2 == <<"u", "2">>
U3 == <<"u", "3">>
D1 == <<"2", "0", "2", "4", "-", "0", "1", "-", "0", "1">>
D2 == <<"2", "0", "2", "4", "-", "0", "1", "-", "0", "2">>
D3 == <<"2", "0", "2", "4", "-", "0", "1", "-", "0", "3">>
BBC == <<"B", "B", "C">>
Reu == <<"R", "e", "u">>

Art(t, u) == [title |-> t, source |-> BBC, url |-> u, date |-> D1, description |-> <<>>]

sA1 == Art(<<"A">>, U1)
sB1 == Art(<<"B">>, U1)
sAe == Art(<<"A">>, <<>>)
sBe == Art(<<"B">>, <<>>)
sNull == Art(None, U2)
sC2 == Art(<<"C">>, U2)
sMiss == [title |-> <<"C">>, source |-> BBC, date |-> D1, description |-> <<>>]

StoreArticles == {sA1, sB1, sAe, sBe, sNull, sC2, sMiss}
ConcArticles == {sA1, sB1, sC2}

----------------------------------------------------------------------------
(* Initial states.                                                         *)

NoFile == <<"absent">>
FileNames == {"out", "news_export.json", "news_export.csv", "news_export.excel"}
NoHeadlines == [net |-> "ok", headlines |-> <<>>]
NoRecords == [net |-> "ok", body |-> "ok", status |-> "ok", records |-> <<>>]

\* the state after  aggregator = NewsAggregator()  on a fresh news.db
InitStore ==
    /\ committed = <<>>
    /\ pending = [p \in Procs |-> <<>>]
    /\ seq = 0
    /\ lock = NoLock
    /\ pc = [p \in Procs |-> "idle"]
    /\ batch = [p \in Procs |-> <<>>]
    /\ idx = [p \in Procs |-> 1]
    /\ stored_count = [p \in Procs |-> 0]
    /\ errs = [p \in Procs |-> <<>>]
    /\ reported = [p \in Procs |-> NotReported]
    /\ startSeq = [p \in Procs |-> 0]
    /\ calls = 0
    /\ used = 0

InitQuery ==
    /\ qargs = [source |-> None, keyword |-> None, date |-> None]
    /\ result = <<>>
    /\ resultIds = <<>>
    /\ qpc = "idle"

InitExport ==
    /\ files = [n \in FileNames |-> NoFile]
    /\ lastExport = NoExport
    /\ exports = 0

InitMain ==
    /\ mainpc = "start"
    /\ articles = <<>>
    /\ fetched = [bbc |-> <<>>, api |-> <<>>]
    /\ adapterLog = [bbc |-> "", api |-> ""]
    /\ found = NotReported
    /\ dedupIn = <<>>
    /\ history = <<>>

Init ==
    /\ InitStore
    /\ InitQuery
    /\ InitExport
    /\ InitMain
    /\ remote = [bbc |-> NoHeadlines, api |-> NoRecords, key |-> FALSE]

----------------------------------------------------------------------------
(* Spec: one connection, store_articles called directly.                   *)

Next ==
    \/ DirectCall(1, StoreArticles, MaxRows) /\ UNCHANGED <<queryVars, exportVars, mainVars>>
    \/ InsertRow(1) /\ UNCHANGED <<queryVars, exportVars, mainVars>>
    \/ Commit(1) /\ UNCHANGED <<queryVars, exportVars, mainVars>>
    \/ Return(1) /\ UNCHANGED <<queryVars, exportVars, mainVars>>

Spec == Init /\ [][Next]_vars

(* SpecConc: two ingest invocations, each on its own connection to the     *)
(* same database, their per-row inserts interleaved.                       *)

NextConc ==
    \E p \in Procs :
        \/ DirectCall(p, ConcArticles, MaxRows) /\ UNCHANGED <<queryVars, exportVars, mainVars>>
        \/ InsertRow(p) /\ UNCHANGED <<queryVars, exportVars, mainVars>>
        \/ Commit(p) /\ UNCHANGED <<queryVars, exportVars, mainVars>>
        \/ Return(p) /\ UNCHANGED <<queryVars, exportVars, mainVars>>

SpecConc == Init /\ [][NextConc]_vars

(* SpecQuery: articles are stored, and the query command runs at any time, *)
(* between any two steps of the storing connection.  Its SELECT is one     *)
(* atomic read of what is committed; the rest of the command touches       *)
(* nothing shared, so no step of the storing connection is interleaved     *)
(* between the SELECT and the end of the command.                          *)

qFedBBC == [title |-> <<"F", "e", "d">>, source |-> BBC, url |-> U1,
            date |-> D1, description |-> <<>>]
qFedReu == [title |-> <<"F", "e", "d">>, source |-> Reu, url |-> U2,
            date |-> D2, description |-> <<>>]
qDesc == [title |-> <<"a", "b">>, source |-> BBC, url |-> U3,
          date |-> D3, description |-> <<"f", "e", "d">>]
qTie == [title |-> <<"x">>, source |-> Reu, url |-> None,
         date |-> D1, description |-> None]
qNoDate == [title |-> <<"F">>, source |-> BBC, url |-> <<>>,
            date |-> <<>>, description |-> <<>>]

QueryArticles == {qFedBBC, qFedReu, qDesc, qTie, qNoDate}
SourceFilters == {None, <<"b", "b", "c">>}
KeywordFilters == {None, <<"F", "E", "D">>, <<"_">>}
DateFilters == {None, <<>>, D2}

NextQuery ==
    \/ /\ qpc = "idle"
       /\ DirectCall(1, QueryArticles, MaxStored)
       /\ UNCHANGED <<queryVars, exportVars, mainVars>>
    \/ qpc = "idle" /\ InsertRow(1) /\ UNCHANGED <<queryVars, exportVars, mainVars>>
    \/ qpc = "idle" /\ Commit(1) /\ UNCHANGED <<queryVars, exportVars, mainVars>>
    \/ qpc = "idle" /\ Return(1) /\ UNCHANGED <<queryVars, exportVars, mainVars>>
    \/ \E source \in SourceFilters, keyword \in KeywordFilters, date \in DateFilters :
          QueryCmd(source, keyword, date) /\ UNCHANGED <<storeVars, exportVars, mainVars>>
    \/ QueryExit /\ UNCHANGED <<storeVars, exportVars, mainVars>>

SpecQuery == Init /\ [][NextQuery]_vars

(* SpecExport: articles are stored, and the export command runs at any     *)
(* time.                                                                   *)

ExportArticles == {qFedBBC, qFedReu}
Formats == {"json", "csv", "excel"}

NextExport ==
    \/ DirectCall(1, ExportArticles, MaxStored) /\ UNCHANGED <<queryVars, exportVars, mainVars>>
    \/ InsertRow(1) /\ UNCHANGED <<queryVars, exportVars, mainVars>>
    \/ Commit(1) /\ UNCHANGED <<queryVars, exportVars, mainVars>>
    \/ Return(1) /\ UNCHANGED <<queryVars, exportVars, mainVars>>
    \/ \E source \in SourceFilters, format \in Formats, output \in {"", "out"} :
          /\ ExportCmd(source, None, None, format, output)
          /\ UNCHANGED <<storeVars, queryVars, mainVars>>

SpecExport == Init /\ [][NextExport]_vars

(* SpecDedup: deduplicate applied to every list of up to MaxLen articles.  *)

DedupTitles == {<<"A">>, <<"a">>, <<"a", " ">>, <<" ", "A">>, <<"B">>, <<" ">>, <<>>}
DedupArticles == {Art(t, <<>>) : t \in DedupTitles}

InitDedup ==
    /\ InitStore
    /\ InitQuery
    /\ InitExport
    /\ mainpc = "fetched"
    /\ articles \in BoundedSeq(DedupArticles, MaxLen)
    /\ fetched = [bbc |-> <<>>, api |-> <<>>]
    /\ adapterLog = [bbc |-> "", api |-> ""]
    /\ found = NotReported
    /\ dedupIn = <<>>
    /\ history = <<>>
    /\ remote = [bbc |-> NoHeadlines, api |-> NoRecords, key |-> FALSE]

NextDedup == Deduplicate /\ UNCHANGED <<storeVars, queryVars, exportVars>>

SpecDedup == InitDedup /\ [][NextDedup]_vars

(* SpecIngest: the fetch command, run MaxRuns times one after the other    *)
(* against remote sources that serve the same content each time.           *)

hB == [text |-> <<"B">>]
hBl == [text |-> <<" ", "B">>, link |-> [href |-> <<"/", "b">>]]
hNoHref == [text |-> <<"C">>, link |-> [class |-> <<"x">>]]
Headlines == {hB, hBl, hNoHref}

Published == <<"2", "0", "2", "4", "-", "0", "1", "-", "0", "2", "T">>
rA == [title |-> <<"A">>, source |-> [name |-> Reu], url |-> U1,
       publishedAt |-> Published, description |-> <<"d">>]
ra == [title |-> <<"a", " ">>, source |-> [name |-> Reu], url |-> U2,
       publishedAt |-> Published, description |-> <<"d">>]
rAe == [title |-> <<"A">>]
rae == [title |-> <<"a", " ">>]
rBad == [title |-> <<"B">>, source |-> NullObject]
rNoDate == [title |-> <<"B">>, publishedAt |-> None]
rNoTitle == [title |-> None, url |-> U3]
Records == {rA, ra, rAe, rae, rBad, rNoDate, rNoTitle}

BBCResponses ==
    {[net |-> "fail", headlines |-> <<>>]}
    \cup {[net |-> "ok", headlines |-> h] : h \in BoundedSeq(Headlines, MaxFetch)}

ApiResponses ==
    {[net |-> "fail", body |-> "ok", status |-> "ok", records |-> <<>>],
     [net |-> "ok", body |-> "bad", status |-> "ok", records |-> <<>>],
     [net |-> "ok", body |-> "ok", status |-> "error", records |-> <<>>]}
    \cup {[net |-> "ok", body |-> "ok", status |-> "ok", records |-> r] :
             r \in BoundedSeq(Records, MaxFetch)}

InitIngest ==
    /\ InitStore
    /\ InitQuery
    /\ InitExport
    /\ InitMain
    /\ remote \in [bbc : BBCResponses, api : ApiResponses, key : BOOLEAN]

NextIngest ==
    \/ FetchBBC /\ UNCHANGED <<storeVars, queryVars, exportVars>>
    \/ FetchNewsapi /\ UNCHANGED <<storeVars, queryVars, exportVars>>
    \/ SkipNewsapi /\ UNCHANGED <<storeVars, queryVars, exportVars>>
    \/ Deduplicate /\ UNCHANGED <<storeVars, queryVars, exportVars>>
    \/ MainStore /\ UNCHANGED <<queryVars, exportVars>>
    \/ mainpc = "storing" /\ InsertRow(1) /\ UNCHANGED <<queryVars, exportVars, mainVars>>
    \/ mainpc = "storing" /\ Commit(1) /\ UNCHANGED <<queryVars, exportVars, mainVars>>
    \/ MainEnd /\ UNCHANGED <<queryVars, exportVars>>

SpecIngest == InitIngest /\ [][NextIngest]_vars

----------------------------------------------------------------------------
(* Claims about store_articles.                                            *)

\* an Article the store accepts: every field present, title and source text
Storable(a) == HasKeys(a) /\ a.title # None /\ a.source # None

HasUrl(a) == a.url # None /\ a.url # <<>>

RowsWithUrl(rows, u) == {i \in 1..Len(rows) : rows[i].url = u}

\* the rows stored before connection p's call started, and those it added
PreRows(p) == SelectSeq(committed, LAMBDA r : r.id <= startSeq[p])
NewRows(p) == SelectSeq(committed, LAMBDA r : r.id > startSeq[p])

Urls(rows) == {rows[i].url : i \in 1..Len(rows)}

\* C1: when a store_articles call has returned, every Article of its batch
\* with a non-empty url has exactly one stored row with that url, however
\* often it was inserted (earlier in the batch or by an earlier call); and
\* the count a batch of such Articles reports is the number of its urls that
\* were not stored before, so a second insert of the same Article adds 0.
C1_IdempotentInsert ==
    pc[1] = "done" =>
        /\ \A i \in 1..Len(batch[1]) :
              LET a == batch[1][i] IN
              Storable(a) /\ HasUrl(a) =>
                  Cardinality(RowsWithUrl(committed, a.url)) = 1
        /\ (\A i \in 1..Len(batch[1]) : Storable(batch[1][i]) /\ HasUrl(batch[1][i]))
              => reported[1] =
                   Cardinality({batch[1][i].url : i \in 1..Len(batch[1])}
                               \ Urls(PreRows(1)))

\* C1 witness: a second call with the Article an earlier call stored has
\* returned, reporting 0, with one row for its url
C1_Witness ==
    /\ pc[1] = "done"
    /\ calls = 2
    /\ batch[1] = <<sA1>>
    /\ \E i \in 1..Len(PreRows(1)) :
          PreRows(1)[i].url = U1 /\ PreRows(1)[i].title = sA1.title
    /\ reported[1] = 0
    /\ Cardinality(RowsWithUrl(committed, U1)) = 1

\* a row this call added for article a
AddedFor(p, a) ==
    \E k \in 1..Len(NewRows(p)) :
        NewRows(p)[k].title = a.title /\ NewRows(p)[k].url = a.url

\* C2 (as claimed): a batch of two Articles that both have the empty-string
\* url and different titles stores both as separate rows and reports 2.
C2_EmptyUrlBothStored ==
    (/\ pc[1] = "done"
     /\ Len(batch[1]) = 2
     /\ Storable(batch[1][1]) /\ Storable(batch[1][2])
     /\ batch[1][1].url = <<>> /\ batch[1][2].url = <<>>
     /\ batch[1][1].title # batch[1][2].title)
    => /\ AddedFor(1, batch[1][1])
       /\ AddedFor(1, batch[1][2])
       /\ reported[1] = 2

\* the i-th article of p's batch is not stored yet when its turn comes: its
\* url is NULL, or no row stored before the call and no storable article
\* earlier in the batch has its url
NotYetStored(p, i) ==
    LET a == batch[p][i] IN
    \/ a.url = None
    \/ /\ a.url \notin Urls(PreRows(p))
       /\ \A j \in 1..(i - 1) : ~(Storable(batch[p][j]) /\ batch[p][j].url = a.url)

\* C8: when a store_articles call whose batch holds failing records (a
\* missing field, a null title) has returned, every record was processed,
\* every valid, not-yet-stored Article of the batch, before or after a
\* failing one, has a newly stored row, and the reported count is the number
\* of those Articles.
C8_FailureIsolation ==
    pc[1] = "done" =>
        LET good == {i \in 1..Len(batch[1]) :
                        Storable(batch[1][i]) /\ NotYetStored(1, i)}
        IN  /\ \A i \in good : AddedFor(1, batch[1][i])
            /\ reported[1] = Cardinality(good)
            /\ Len(NewRows(1)) = Cardinality(good)

\* C8 witness: a returned call whose batch has a null-title record first, a
\* valid Article, a record with a missing field, and another valid Article
C8_Witness ==
    /\ pc[1] = "done"
    /\ batch[1] = <<sNull, sA1, sMiss, sC2>>
    /\ errs[1] = <<"KeyError">>
    /\ reported[1] = 2
    /\ AddedFor(1, sA1) /\ AddedFor(1, sC2)

\* no two rows with the same non-empty url
UrlUnique(rows) ==
    \A i, j \in 1..Len(rows) :
        i # j /\ rows[i].url = rows[j].url => rows[i].url \in {None, <<>>}

\* a step in which connection p inserts an Article whose non-empty url it
\* sees stored, the write lock being free or its own
DuplicateInsert(p) ==
    /\ pc[p] = "loop"
    /\ idx[p] <= Len(batch[p])
    /\ idx'[p] = idx[p] + 1
    /\ Storable(batch[p][idx[p]])
    /\ HasUrl(batch[p][idx[p]])
    /\ lock \in {NoLock, p}
    /\ batch[p][idx[p]].url \in Urls(Visible(p))

\* C3: in every reachable state of two interleaved ingest invocations no two
\* rows, committed or in a connection's open transaction, have the same
\* non-empty url; and a duplicate insert is a silent no-op: it prints no
\* error, adds no row and counts nothing.
C3_UrlUniqueness ==
    /\ [](UrlUnique(committed) /\ \A p \in Procs : UrlUnique(Visible(p)))
    /\ [][\A p \in Procs : DuplicateInsert(p) =>
             /\ errs'[p] = errs[p]
             /\ pending'[p] = pending[p]
             /\ committed' = committed
             /\ stored_count'[p] = stored_count[p]]_vars

\* C3 witness: both connections were handed an Article with url u1, both
\* calls have returned without an error, and one row has that url
C3_Witness ==
    /\ pc[1] = "done" /\ pc[2] = "done"
    /\ batch[1] = <<sA1>> /\ batch[2] = <<sB1>>
    /\ errs[1] = <<>> /\ errs[2] = <<>>
    /\ reported[1] + reported[2] = 1
    /\ Cardinality(RowsWithUrl(committed, U1)) = 1

----------------------------------------------------------------------------
(* Claims about query_articles.                                            *)

\* the rows that were committed when the outstanding query ran
Seen == committed

Substring(sub, s) ==
    \E i \in 0..(Len(s) - Len(sub)) : SubSeq(s, i + 1, i + Len(sub)) = sub

\* x is a substring of column value col, without regard to case
ContainsCI(col, x) == col # None /\ Substring(Lower(x), Lower(col))

\* the row satisfies every supplied filter, as the claim words them
Satisfies(row, q) ==
    /\ Truthy(q.source) => ContainsCI(row.source, q.source)
    /\ Truthy(q.keyword) =>
          ContainsCI(row.title, q.keyword) \/ ContainsCI(row.description, q.keyword)
    /\ Truthy(q.date) => row.date = q.date

\* C5 (as claimed): the result of query_articles is exactly the stored
\* Articles that satisfy every supplied filter (source and keyword as
\* case-insensitive substrings, date by equality), each once; all stored
\* Articles when no filter is supplied.
C5_FilterConjunction ==
    qpc = "queried" =>
    /\ {resultIds[k] : k \in 1..Len(resultIds)}
         = {Seen[i].id : i \in {j \in 1..Len(Seen) : Satisfies(Seen[j], qargs)}}
    /\ \A k, l \in 1..Len(resultIds) : k # l => resultIds[k] # resultIds[l]
    /\ Len(result) = Len(resultIds)
    /\ \A k \in 1..Len(result) :
          \E i \in 1..Len(Seen) :
              Seen[i].id = resultIds[k] /\ result[k] = RowDict(Seen[i])

Digit(c) == Code(c) - 48

\* a calendar date as a number; an unknown date (NULL, empty) below all
DateNum(d) ==
    IF d = None THEN -1
    ELSE IF d = <<>> THEN 0
    ELSE (Digit(d[1]) * 1000 + Digit(d[2]) * 100 + Digit(d[3]) * 10 + Digit(d[4])) * 10000
         + (Digit(d[6]) * 10 + Digit(d[7])) * 100
         + Digit(d[9]) * 10 + Digit(d[10])

\* the place of the row with this id in insertion order
InsertionIndex(id) == CHOOSE i \in 1..Len(Seen) : Seen[i].id = id

\* C6: the result of query_articles is in descending calendar order of
\* date, and Articles of equal date are in descending insertion order; the
\* store-assigned ids rise with insertion order.
C6_QueryOrdering ==
    /\ \A i, j \in 1..Len(committed) : i < j => committed[i].id < committed[j].id
    /\ \A k, l \in 1..Len(resultIds) :
          k < l =>
            LET a == Seen[InsertionIndex(resultIds[k])]
                b == Seen[InsertionIndex(resultIds[l])]
            IN  /\ result[k] = RowDict(a)
                /\ result[l] = RowDict(b)
                /\ \/ DateNum(a.date) > DateNum(b.date)
                   \/ /\ DateNum(a.date) = DateNum(b.date)
                      /\ InsertionIndex(resultIds[k]) > InsertionIndex(resultIds[l])

\* C6 witness: Articles dated 01-01, 01-03, 01-02 were inserted in that
\* order and an unfiltered query returned them 01-03, 01-02, 01-01
C6_Witness ==
    /\ Len(committed) = 3
    /\ [i \in 1..3 |-> committed[i].date] = <<D1, D3, D2>>
    /\ qargs = [source |-> None, keyword |-> None, date |-> None]
    /\ qpc = "queried"
    /\ [i \in 1..Len(result) |-> result[i].date] = <<D3, D2, D1>>

----------------------------------------------------------------------------
(* Claims about deduplicate.                                               *)

\* the canonical key of the claim: the title lowercased and trimmed
CanonicalKey(a) == Strip(Lower(a.title))

\* the i-th Article of L is the first of L with its key, and the key is not
\* empty
FirstOfKey(L, i) ==
    /\ CanonicalKey(L[i]) # <<>>
    /\ \A j \in 1..(i - 1) : CanonicalKey(L[j]) # CanonicalKey(L[i])

\* the subsequence of L at the indices in I, in L's order
RECURSIVE Subsequence(_, _, _)
Subsequence(L, I, i) ==
    IF i > Len(L) THEN <<>>
    ELSE (IF i \in I THEN <<L[i]>> ELSE <<>>) \o Subsequence(L, I, i + 1)

\* C4: deduplicate(L) is exactly the subsequence of L made of the first
\* Article of each non-empty canonical key, in L's order; blank titles and
\* later Articles of a seen key are absent.
C4_FirstOccurrenceWins ==
    mainpc = "deduped" =>
        /\ articles = Subsequence(dedupIn, {i \in 1..Len(dedupIn) : FirstOfKey(dedupIn, i)}, 1)
        /\ \A k \in 1..Len(articles) : CanonicalKey(articles[k]) # <<>>
        /\ \A k, l \in 1..Len(articles) :
              k # l => CanonicalKey(articles[k]) # CanonicalKey(articles[l])

\* C4 witness: a blank title, a title, and the same title in another case
\* with a trailing blank went in; the second alone came out
C4_Witness ==
    /\ mainpc = "deduped"
    /\ dedupIn = <<Art(<<" ">>, <<>>), Art(<<"A">>, <<>>), Art(<<"a", " ">>, <<>>)>>
    /\ articles = <<Art(<<"A">>, <<>>)>>

----------------------------------------------------------------------------
(* Claims about the adapters.                                              *)

\* the adapter's except clause printed an error in this run
BBCFailed == mainpc # "start" /\ adapterLog.bbc # ""
ApiFailed == mainpc \in {"fetched", "deduped", "storing", "crashed"} /\ adapterLog.api # ""

\* C7 (as claimed): whenever a failure occurred in an adapter, at whatever
\* point, the adapter returned an empty sequence.
C7_FailureReturnsEmpty ==
    /\ BBCFailed => fetched.bbc = <<>>
    /\ ApiFailed => fetched.api = <<>>

\* the number of records before the first one whose mapping fails
BeforeFailure(records, fails(_)) ==
    IF \E i \in 1..Len(records) : fails(records[i])
    THEN (CHOOSE i \in 1..Len(records) :
            fails(records[i]) /\ \A j \in 1..(i - 1) : ~fails(records[j])) - 1
    ELSE Len(records)

HeadlineFails(h) == "link" \in DOMAIN h /\ "href" \notin DOMAIN h.link
RecordFails(r) ==
    \/ ("source" \in DOMAIN r /\ r.source = NullObject)
    \/ ("publishedAt" \in DOMAIN r /\ r.publishedAt = None)

\* C7 (amended): an adapter never raises to the caller: the command goes on
\* after it; on a failure it returns the records mapped before the failure,
\* which is the empty sequence when the request or the parse failed.
C7_FailureReturnsMappedPrefix ==
    /\ mainpc # "start" =>
          /\ adapterLog.bbc \in {"", "ConnectionError", "KeyError"}
          /\ (remote.bbc.net # "ok" => fetched.bbc = <<>> /\ adapterLog.bbc # "")
          /\ remote.bbc.net = "ok" =>
                LET n == BeforeFailure(remote.bbc.headlines, HeadlineFails)
                IN  /\ Len(fetched.bbc) = n
                    /\ \A i \in 1..n :
                          fetched.bbc[i].title = Strip(remote.bbc.headlines[i].text)
                    /\ (adapterLog.bbc # "") = (n < Len(remote.bbc.headlines))
    /\ (mainpc \in {"fetched", "deduped", "storing", "crashed"} /\ remote.key) =>
          /\ adapterLog.api \in {"", "ConnectionError", "ValueError",
                                  "AttributeError", "TypeError"}
          /\ (remote.api.net # "ok" \/ remote.api.body # "ok") =>
                (fetched.api = <<>> /\ adapterLog.api # "")
          /\ (remote.api.net = "ok" /\ remote.api.body = "ok"
                 /\ remote.api.status = "ok") =>
                LET n == BeforeFailure(remote.api.records, RecordFails)
                IN  /\ Len(fetched.api) = n
                    /\ \A i \in 1..n :
                          fetched.api[i].title = remote.api.records[i].title
                    /\ (adapterLog.api # "") = (n < Len(remote.api.records))

\* C7 witness: the NewsAPI adapter failed on its second record and returned
\* the first, and the command went on to deduplicate
C7_Witness ==
    /\ mainpc = "deduped"
    /\ remote.api.records = <<rA, rBad>>
    /\ adapterLog.api = "AttributeError"
    /\ Len(fetched.api) = 1
    /\ fetched.api[1].title = <<"A">>

----------------------------------------------------------------------------
(* Claims about the export encoders.                                       *)

\* C9 (as claimed): an encoder given an empty sequence of Articles performs
\* no write to the destination and reports zero records written.
C9_EmptyExportNoWrite ==
    (lastExport.format # "" /\ lastExport.n = 0) =>
        /\ ~lastExport.wrote
        /\ (lastExport.count = 0 \/ lastExport.message = "No articles to export")

----------------------------------------------------------------------------
(* Claims about the fetch command.                                         *)

Titles(arts) == [i \in 1..Len(arts) |-> arts[i].title]

\* the adapters serve Articles titled "A" and "a " from one source and "B"
\* from the other
Scenario ==
    /\ remote.key
    /\ Titles(fetch_newsapi(remote.api).articles) = << <<"A">>, <<"a", " ">> >>
    /\ fetch_newsapi(remote.api).error = ""
    /\ Titles(fetch_bbc_news(remote.bbc).articles) = << <<"B">> >>
    /\ fetch_bbc_news(remote.bbc).error = ""

ServedUrls ==
    LET arts == fetch_bbc_news(remote.bbc).articles \o fetch_newsapi(remote.api).articles
    IN  [i \in 1..Len(arts) |-> arts[i].url]

\* the first run reported 2 unique candidates and 2 new rows; the repeat
\* run stored 0 new rows and left the store as it was
TwoThenNone ==
    /\ Len(history) >= 1 => (history[1].found = 2 /\ history[1].stored = 2
                              /\ Len(history[1].rows) = 2)
    /\ Len(history) >= 2 => (history[2].stored = 0 /\ history[2].rows = history[1].rows)

====
